---------------------------- MODULE Spec2Model ----------------------------
(***************************************************************************)
(* A model of pychmod.py: the option resolver (_get_options,               *)
(* _process_resources), the recursive walker (_chmod_files), the shebang   *)
(* sniffer (_use_permissions) and main.                                    *)
(*                                                                         *)
(* Strings of the program (paths, file names, permission strings, first    *)
(* lines of files) are sequences of one-character strings, so that split,  *)
(* strip, startswith, the regular expression and int(.., 8) are computed   *)
(* as the code computes them.  The file system is a small set of inodes;   *)
(* a path is resolved by looking its last component up in the directory    *)
(* the walker is in.                                                       *)
(***************************************************************************)
EXTENDS Integers, Sequences, FiniteSets, TLC

VARIABLES
  argv,      \* the options of the command line, as getopt returns them
  fs,        \* the parts of the file system that vary: link targets, content
  pc,        \* "start" | "walk" | "done"
  cfg,       \* the tuple _get_options returned (startdir, perms, flags)
  stack,     \* the call stack of _chmod_files, one frame per active call
  mode,      \* inode -> permission bits
  stdout,    \* what was written to sys.stdout, one record per write
  retval,    \* what main returned (1 when an exception left main uncaught)
  exc,       \* the exception that ended the run, "none" when there was none
  trace      \* history: the system calls made and the reads that failed

vars == <<argv, fs, pc, cfg, stack, mode, stdout, retval, exc, trace>>

-----------------------------------------------------------------------------
(* Bounds of the model. *)

\* Symbolic links the kernel follows in one path resolution before it fails
\* with ELOOP (40 on Linux, scaled down).
MaxSymlinks == 2

-----------------------------------------------------------------------------
(* Characters and strings. *)

WS == {" ", "\t", "\n"}

OctDigits == {"0", "1", "2", "3", "4", "5", "6", "7"}

DigitVal == ("0" :> 0) @@ ("1" :> 1) @@ ("2" :> 2) @@ ("3" :> 3) @@
            ("4" :> 4) @@ ("5" :> 5) @@ ("6" :> 6) @@ ("7" :> 7)

\* str.strip(): leading and trailing whitespace removed.
RECURSIVE LStrip(_)
LStrip(s) ==
  IF s # <<>> /\ Head(s) \in WS THEN LStrip(Tail(s)) ELSE s

RECURSIVE RStrip(_)
RStrip(s) ==
  IF s # <<>> /\ s[Len(s)] \in WS THEN RStrip(SubSeq(s, 1, Len(s) - 1)) ELSE s

Strip(s) == RStrip(LStrip(s))

\* str.startswith(prefix)
StartsWith(s, prefix) ==
  /\ Len(s) >= Len(prefix)
  /\ SubSeq(s, 1, Len(prefix)) = prefix

\* int(s, 8) of a string the regular expression accepted; int() ignores
\* surrounding whitespace.
RECURSIVE OctValue(_)
OctValue(s) ==
  IF s = <<>> THEN 0
  ELSE 8 * OctValue(SubSeq(s, 1, Len(s) - 1)) + DigitVal[s[Len(s)]]

OctInt(s) == OctValue(Strip(s))

\* len(s.split('.')): one more than the number of dots.
SplitLen(s) == 1 + Cardinality({i \in 1..Len(s) : s[i] = "."})

\* s.split('.')[-1]: what follows the last dot (all of s when there is none).
SplitLast(s) ==
  LET dots == {i \in 1..Len(s) : s[i] = "."}
      last == IF dots = {} THEN 0
              ELSE CHOOSE i \in dots : \A j \in dots : j <= i
  IN  SubSeq(s, last + 1, Len(s))

\* os.path.join(directory, filename) for a relative filename.
PathJoin(directory, filename) ==
  IF directory = <<>> \/ directory[Len(directory)] = "/"
  THEN directory \o filename
  ELSE directory \o <<"/">> \o filename

-----------------------------------------------------------------------------
(* Constants of the program. *)

_DEF_DIR_PERMS == <<"0", "7", "5", "5">>
_DEF_FILE_PERMS == <<"0", "6", "4", "4">>
_DEF_EXEC_PERMS == <<"0", "7", "5", "5">>

_EXE_LIST ==
  << <<".", "b", "a", "s", "h">>, <<".", "c", "g", "i">>,
     <<".", "c", "s", "h">>, <<".", "e", "x", "e">>, <<".", "o">>,
     <<".", "o", "u", "t">>, <<".", "p", "a", "r">>, <<".", "p", "l">>,
     <<".", "p", "y">>, <<".", "p", "y", "c">>, <<".", "p", "y", "o">>,
     <<".", "r", "b">>, <<".", "s", "h">>, <<".", "s", "o">> >>

_DEF_VERBOSE == FALSE
_DEF_SYM == FALSE

\* _EXE_LIST.count(fileext)
ExeListCount(fileext) ==
  Cardinality({i \in 1..Len(_EXE_LIST) : _EXE_LIST[i] = fileext})

-----------------------------------------------------------------------------
(* The file system.  Inodes are named; T, S and O are directories, F1..F4  *)
(* regular files, L1..L3 symbolic links.  The process runs in the parent   *)
(* of T, except for the root "." which is T itself.                        *)
(*                                                                         *)
(*    t/c        -> F1         t/s.d/c    -> F3       o/b.txt -> F4        *)
(*    t/s.d      -> S          t/s.d/a.py -> F2       o/k.txt -> L3 -> F2  *)
(*    t/lk       -> L1         t/s.d/up   -> L2                            *)
(*                                                                         *)
(* O is outside the tree under T: only a link leads to it.                 *)

Dirs == {"T", "S", "O"}
Files == {"F1", "F2", "F3", "F4"}
Links == {"L1", "L2", "L3"}
Inodes == Dirs \cup Files \cup Links
Dangling == "NONE"

Kind(ino) ==
  IF ino \in Dirs THEN "dir" ELSE IF ino \in Links THEN "link" ELSE "file"

\* The code points of the characters of the file names.
Ord == ("." :> 46) @@ ("a" :> 97) @@ ("b" :> 98) @@ ("c" :> 99) @@
       ("d" :> 100) @@ ("k" :> 107) @@ ("l" :> 108) @@ ("p" :> 112) @@
       ("s" :> 115) @@ ("t" :> 116) @@ ("u" :> 117) @@ ("x" :> 120) @@
       ("y" :> 121)

\* The entries of a directory: <<name, inode>>.
Entries(d) ==
  CASE d = "T" -> { << <<"c">>, "F1" >>,
                    << <<"s", ".", "d">>, "S" >>,
                    << <<"l", "k">>, "L1" >> }
    [] d = "S" -> { << <<"c">>, "F3" >>,
                    << <<"a", ".", "p", "y">>, "F2" >>,
                    << <<"u", "p">>, "L2" >> }
    [] d = "O" -> { << <<"b", ".", "t", "x", "t">>, "F4" >>,
                    << <<"k", ".", "t", "x", "t">>, "L3" >> }

Names(d) == {e[1] : e \in Entries(d)}

Lookup(d, name) == (CHOOSE e \in Entries(d) : e[1] = name)[2]

\* The mode bits every inode has before the run (0600, a value none of the
\* permission strings of the model denotes).
InitMode == [ino \in Dirs \cup Files |-> 384]

\* The paths a user can pass as --dir, and the directory each names.
RootPaths == { <<"t">>, <<".">>, <<"t", "/", "s", ".", "d">> }

RootIno(path) ==
  IF path = <<"t", "/", "s", ".", "d">> THEN "S" ELSE "T"

\* First chunk of a file as readline sees it; "0xFF" stands for a byte that
\* is not valid in the locale's encoding.
Contents ==
  { <<"#", "!", "/">>, <<"!", "#", "/">>, <<"h", "i">>, <<>>, <<"0xFF">> }

Decodable(content) == \A i \in 1..Len(content) : content[i] # "0xFF"

\* The errno module: the error numbers the system calls of the model fail with.
errno == [EPERM |-> 1, ENOENT |-> 2, EIO |-> 5, EACCES |-> 13, ELOOP |-> 40]

\* Path resolution of the entry `ino` of a directory that was reached through
\* `nlinks` symbolic links, following a final link (stat, chmod, open).
Resolve(ino, nlinks) ==
  IF Kind(ino) # "link" THEN [err |-> 0, ino |-> ino, nlinks |-> nlinks]
  ELSE IF nlinks + 1 > MaxSymlinks
       THEN [err |-> errno.ELOOP, ino |-> Dangling, nlinks |-> nlinks]
  ELSE IF fs.target[ino] = Dangling
       THEN [err |-> errno.ENOENT, ino |-> Dangling, nlinks |-> nlinks]
  ELSE [err |-> 0, ino |-> fs.target[ino], nlinks |-> nlinks + 1]

\* os.path.islink: lstat of the entry itself.
IsLink(ino) == Kind(ino) = "link"

\* SkipsLink with the test of the flag turned round.
SkipsLink_Inverted(ino, followsymlinks) == IsLink(ino) /\ followsymlinks = TRUE

\* Line 152: os.path.islink(somefile) and followsymlinks is False
SkipsLink(ino, followsymlinks) == IsLink(ino) /\ followsymlinks = FALSE

\* os.path.isdir: stat follows links and answers False on any error.
IsDir(ino, nlinks) ==
  LET r == Resolve(ino, nlinks) IN r.err = 0 /\ Kind(r.ino) = "dir"

-----------------------------------------------------------------------------
(* Options. An option that is absent is NoOpt, one that was given Opt(v).  *)

NoOpt == <<>>
Opt(v) == <<v>>
Val(o) == o[1]

\* What `basedir is None` tests: the tuple carries Opt(dir) or NoOpt.

\* perm_regex.match(s) for '^[0-7]{4}$' ('$' also matches before a final
\* newline).
PermRegexMatch(s) ==
  /\ Len(s) >= 4
  /\ \A i \in 1..4 : s[i] \in OctDigits
  /\ \/ Len(s) = 4
     \/ Len(s) = 5 /\ s[5] = "\n"

\* _process_resources with the default of the directories given to files.
ProcessResources_WrongDefault(dirperms, fileperms, scriptperms) ==
  << IF PermRegexMatch(dirperms) THEN dirperms ELSE _DEF_DIR_PERMS,
     IF PermRegexMatch(fileperms) THEN fileperms ELSE _DEF_DIR_PERMS,
     IF PermRegexMatch(scriptperms) THEN scriptperms ELSE _DEF_EXEC_PERMS >>

\* _process_resources
ProcessResources(dirperms, fileperms, scriptperms) ==
  << IF PermRegexMatch(dirperms) THEN dirperms ELSE _DEF_DIR_PERMS,
     IF PermRegexMatch(fileperms) THEN fileperms ELSE _DEF_FILE_PERMS,
     IF PermRegexMatch(scriptperms) THEN scriptperms ELSE _DEF_EXEC_PERMS >>

OptionsResult(rv, basedir, dp, fp, xp, verbose, followsymlinks) ==
  [retval |-> rv, startdir |-> basedir, dirperms |-> dp, fileperms |-> fp,
   scriptperms |-> xp, verbose |-> verbose, followsymlinks |-> followsymlinks]

OptionsError ==
  OptionsResult(-1, NoOpt, _DEF_DIR_PERMS, _DEF_FILE_PERMS, _DEF_EXEC_PERMS,
                _DEF_VERBOSE, _DEF_SYM)

OptionsHelp ==
  OptionsResult(0, NoOpt, _DEF_DIR_PERMS, _DEF_FILE_PERMS, _DEF_EXEC_PERMS,
                _DEF_VERBOSE, _DEF_SYM)

\* _get_options on the options `a`: an unknown option makes getopt raise
\* before the loop; -h returns from the loop; a missing --dir raises KeyError.
GetOptions(a) ==
  IF a.unknown THEN OptionsError
  ELSE IF a.help THEN OptionsHelp
  ELSE IF a.dir = NoOpt THEN OptionsError
  ELSE
    LET dirperms == IF a.dirperms = NoOpt THEN _DEF_DIR_PERMS
                    ELSE Strip(Val(a.dirperms))
        fileperms == IF a.fileperms = NoOpt THEN _DEF_FILE_PERMS
                     ELSE Strip(Val(a.fileperms))
        scriptperms == IF a.execperms = NoOpt THEN _DEF_EXEC_PERMS
                       ELSE Strip(Val(a.execperms))
        p == ProcessResources(dirperms, fileperms, scriptperms)
    IN  OptionsResult(0, Opt(Strip(Val(a.dir))), p[1], p[2], p[3],
                      a.verbose, a.symlinks)

-----------------------------------------------------------------------------
(* _use_permissions.  openErr is the errno open() failed with (0: opened), *)
(* readErr the errno readline() failed with (0: no OSError), content what  *)
(* the file holds.  Answers the permission string, which of the two it is, *)
(* and the exception that leaves the function.                             *)

UsePermissions(openErr, readErr, content, fp, xp) ==
  LET line == IF openErr # 0 \/ readErr # 0 THEN <<>> ELSE content
      \* `finally: file_desc.close()` with file_desc still None
      raised == IF openErr # 0 THEN "AttributeError"
                \* a decoding error is a ValueError: `except OSError` lets it by
                ELSE IF readErr = 0 /\ ~Decodable(content)
                     THEN "UnicodeDecodeError"
                ELSE "none"
      script == StartsWith(line, <<"!", "#">>)
  IN  [exc |-> raised,
       perms |-> IF script THEN xp ELSE fp,
       which |-> IF script THEN "xperms" ELSE "fperms"]

-----------------------------------------------------------------------------
(* The walker.  A frame of the stack is one active call of _chmod_files:   *)
(* its directory (the path string and the inode the path names, with the   *)
(* number of links the path goes through), its listing and dirlist, and    *)
(* the index i of the loop over dirlist (0 before the listing is made).    *)

Frame(directory, ino, nlinks) ==
  [directory |-> directory, ino |-> ino, nlinks |-> nlinks,
   listing |-> <<>>, dirlist |-> <<>>, i |-> 0]

top == stack[Len(stack)]

\* name1 sorts before name2 (the order of Python's strings).
RECURSIVE Before(_, _)
Before(name1, name2) ==
  IF name1 = <<>> THEN name2 # <<>>
  ELSE IF name2 = <<>> THEN FALSE
  ELSE IF Head(name1) = Head(name2) THEN Before(Tail(name1), Tail(name2))
  ELSE Ord[Head(name1)] < Ord[Head(name2)]

\* What os.listdir returns for directory d.  The order is the file
\* system's: the model has the names sorted, upwards or downwards.
Listing(d) ==
  LET n == Cardinality(Names(d))
      rank(name) == 1 + Cardinality({m \in Names(d) : Before(m, name)})
      pos(name) == IF fs.order = "asc" THEN rank(name) ELSE n + 1 - rank(name)
  IN  [k \in 1..n |-> CHOOSE name \in Names(d) : pos(name) = k]

\* One entry of the history.
Event(op, path, nlinks, ino, which, m, err) ==
  [op |-> op, path |-> path, nlinks |-> nlinks, ino |-> ino, which |-> which,
   mode |-> m, err |-> err]

\* The line written to stdout when verbose is set.
Written(tag, path) == [tag |-> tag, path |-> path]

\* main, lines 204-206: an OSError reaches the handler, which returns
\* err.errno.
\* main's handler returning a generic failure code.
MainCatch_Generic(err) ==
  /\ pc' = "done"
  /\ retval' = 1
  /\ exc' = "OSError"
  /\ stack' = <<>>

MainCatch(err) ==
  /\ pc' = "done"
  /\ retval' = err
  /\ exc' = "OSError"
  /\ stack' = <<>>

\* A system call of the walker fails: the event joins the history and the
\* OSError unwinds every call of _chmod_files.
RaiseOSError(ev) ==
  /\ MainCatch(ev.err)
  /\ trace' = Append(trace, ev)

\* An exception main does not catch: the interpreter prints the traceback
\* and exits with status 1.
RaiseUncaught(name, ev) ==
  /\ pc' = "done"
  /\ retval' = 1
  /\ exc' = name
  /\ stack' = <<>>
  /\ trace' = Append(trace, ev)

\* Lines 201, 158: the list [dirperms, fileperms, scriptperms] every call of
\* _chmod_files is given, and line 142, which unpacks it.
perms == <<cfg.dirperms, cfg.fileperms, cfg.scriptperms>>
\* The list unpacked in the wrong order.
dperms_Swapped == perms[2]

dperms == perms[1]
fperms == perms[2]
xperms == perms[3]

\* The loop of the caller moves on to its next entry.
NextEntry(st) ==
  [st EXCEPT ![Len(st)].i = st[Len(st)].i + 1]

\* The entry the loop of the top frame is at.
somefile == top.dirlist[top.i]
someino == Lookup(top.ino, top.listing[top.i])

\* The symbolic links the path somefile goes through.
somelinks == top.nlinks + (IF IsLink(someino) THEN 1 ELSE 0)

InLoop ==
  /\ pc = "walk"
  /\ top.i >= 1
  /\ top.i <= Len(top.dirlist)

-----------------------------------------------------------------------------
(* main *)

\* main, lines 185-191: the options are in error.
MainOptionsError ==
  /\ pc = "start"
  /\ GetOptions(argv).retval # 0
  /\ pc' = "done"
  /\ retval' = GetOptions(argv).retval
  /\ cfg' = GetOptions(argv)
  /\ UNCHANGED <<argv, fs, stack, mode, stdout, exc, trace>>

\* main, lines 193-196: -h was given.
MainHelp ==
  /\ pc = "start"
  /\ GetOptions(argv).retval = 0
  /\ GetOptions(argv).startdir = NoOpt
  /\ pc' = "done"
  /\ retval' = GetOptions(argv).retval
  /\ cfg' = GetOptions(argv)
  /\ stdout' = Append(stdout, Written("usage", <<>>))
  /\ UNCHANGED <<argv, fs, stack, mode, exc, trace>>

\* main, lines 198-202: the banner is written and _chmod_files is called on
\* the start directory.
MainWalk ==
  /\ pc = "start"
  /\ GetOptions(argv).retval = 0
  /\ GetOptions(argv).startdir # NoOpt
  /\ cfg' = GetOptions(argv)
  /\ stdout' = Append(stdout, Written("chmod", <<>>))
  /\ stack' = << Frame(Val(cfg'.startdir), RootIno(Val(cfg'.startdir)), 0) >>
  /\ pc' = "walk"
  /\ UNCHANGED <<argv, fs, mode, retval, exc, trace>>

-----------------------------------------------------------------------------
(* _chmod_files *)

\* Line 138: os.listdir raises (the directory cannot be read).
ListDirFails ==
  /\ pc = "walk"
  /\ top.i = 0
  /\ RaiseOSError(Event("listdir", top.directory, top.nlinks, top.ino, "-", -1,
                        errno.EACCES))
  /\ UNCHANGED <<argv, fs, cfg, mode, stdout>>

\* Lines 138-145: the directory is listed, then os.chmod on it raises.
ChmodDirFails ==
  /\ pc = "walk"
  /\ top.i = 0
  /\ RaiseOSError(Event("chmod", top.directory, top.nlinks, top.ino, "dperms",
                        OctInt(dperms), errno.EPERM))
  /\ UNCHANGED <<argv, fs, cfg, mode, stdout>>

\* Lines 138-147: the directory is listed, its mode set to dperms and the
\* dir: line written.
EnterDir ==
  /\ pc = "walk"
  /\ top.i = 0
  /\ LET listing == Listing(top.ino) IN
       stack' = [stack EXCEPT ![Len(stack)] =
                   [@ EXCEPT !.listing = listing,
                             !.dirlist = [k \in 1..Len(listing) |->
                                            PathJoin(top.directory, listing[k])],
                             !.i = 1]]
  /\ mode' = [mode EXCEPT ![top.ino] = OctInt(dperms)]
  /\ trace' = trace \o
       << Event("listdir", top.directory, top.nlinks, top.ino, "-", -1, 0),
          Event("chmod", top.directory, top.nlinks, top.ino, "dperms",
                OctInt(dperms), 0) >>
  /\ stdout' = IF cfg.verbose
               THEN Append(stdout, Written("dir", top.directory))
               ELSE stdout
  /\ UNCHANGED <<argv, fs, pc, cfg, retval, exc>>

\* Lines 152-154: a symbolic link, and links are not followed.
SkipSymlink ==
  /\ InLoop
  /\ SkipsLink(someino, cfg.followsymlinks)
  /\ stack' = NextEntry(stack)
  /\ UNCHANGED <<argv, fs, pc, cfg, mode, stdout, retval, exc, trace>>

\* Lines 156-158: a directory; _chmod_files is called on it.
Recurse ==
  /\ InLoop
  /\ ~SkipsLink(someino, cfg.followsymlinks)
  /\ IsDir(someino, top.nlinks)
  /\ stack' = Append(stack,
                     Frame(somefile, Resolve(someino, top.nlinks).ino,
                           Resolve(someino, top.nlinks).nlinks))
  /\ UNCHANGED <<argv, fs, pc, cfg, mode, stdout, retval, exc, trace>>

\* The end of the loop: the call returns to its caller's loop, the outermost
\* one to main, which returns 0 (line 203).
Return ==
  /\ pc = "walk"
  /\ top.i > Len(top.dirlist)
  /\ IF Len(stack) = 1
     THEN /\ stack' = <<>>
          /\ pc' = "done"
          /\ retval' = 0
     ELSE /\ stack' = NextEntry(SubSeq(stack, 1, Len(stack) - 1))
          /\ UNCHANGED <<pc, retval>>
  /\ UNCHANGED <<argv, fs, cfg, mode, stdout, exc, trace>>

\* The errno values open() can end with on the entry (0: the file opens):
\* the error of the path resolution, or a file the user may not read.
OpenErrs(ino, nlinks) ==
  IF Resolve(ino, nlinks).err # 0 THEN {Resolve(ino, nlinks).err}
  ELSE {0, errno.EACCES}

\* The errno values readline() can end with on an opened file.
ReadErrs(openErr) == IF openErr # 0 THEN {0} ELSE {0, errno.EIO}

\* The errno values os.chmod can end with on the entry.
ChmodErrs(ino, nlinks) ==
  IF Resolve(ino, nlinks).err # 0 THEN {Resolve(ino, nlinks).err}
  ELSE {0, errno.EPERM}

\* Lines 162-163: len(partslist) == 1
NoExtension(path) == SplitLen(path) = 1

\* ClassifyExt with the dot of the extension forgotten.
ClassifyExt_NoDot(path, fp, xp) ==
  LET fileext == SplitLast(path)
  IN  IF ExeListCount(fileext) = 0
      THEN [perms |-> fp, which |-> "fperms", tag |-> "file"]
      ELSE [perms |-> xp, which |-> "xperms", tag |-> "script/executable"]

\* Lines 169-179: the permission and the tag of a file with an extension.
ClassifyExt(path, fp, xp) ==
  LET fileext == <<".">> \o SplitLast(path)
  IN  IF ExeListCount(fileext) = 0
      THEN [perms |-> fp, which |-> "fperms", tag |-> "file"]
      ELSE [perms |-> xp, which |-> "xperms", tag |-> "script/executable"]

\* Line 166: the tag written for a file without an extension.
NoExtTag(which) == "file"

\* The entry is neither skipped nor a directory: lines 159-179 handle it.
FileBranch ==
  /\ InLoop
  /\ ~SkipsLink(someino, cfg.followsymlinks)
  /\ ~IsDir(someino, top.nlinks)

\* Line 164: _use_permissions ends with an exception main does not catch.
SniffRaises ==
  /\ FileBranch
  /\ NoExtension(somefile)
  /\ \E openErr \in OpenErrs(someino, top.nlinks) :
     \E readErr \in ReadErrs(openErr) :
       LET u == UsePermissions(openErr, readErr, fs.content, fperms, xperms)
       IN  /\ u.exc # "none"
           /\ RaiseUncaught(u.exc,
                Event(IF openErr # 0 THEN "open" ELSE "decode", somefile, somelinks,
                      Resolve(someino, top.nlinks).ino, "-", -1, openErr))
  /\ UNCHANGED <<argv, fs, cfg, mode, stdout>>

\* The history of a sniff that _use_permissions survived.
SniffEvents(readErr) ==
  IF readErr = 0 THEN <<>>
  ELSE << Event("readline", somefile, somelinks, Resolve(someino, top.nlinks).ino,
                "-", -1, readErr) >>

\* Lines 164-166: a file without an extension is sniffed and its mode set.
ChmodNoExt ==
  /\ FileBranch
  /\ NoExtension(somefile)
  /\ \E readErr \in ReadErrs(0) :
       LET u == UsePermissions(0, readErr, fs.content, fperms, xperms)
           ino == Resolve(someino, top.nlinks).ino
       IN  /\ 0 \in OpenErrs(someino, top.nlinks)
           /\ u.exc = "none"
           /\ mode' = [mode EXCEPT ![ino] = OctInt(u.perms)]
           /\ trace' = trace \o SniffEvents(readErr) \o
                << Event("chmod", somefile, somelinks, ino, u.which, OctInt(u.perms), 0) >>
           /\ stdout' = IF cfg.verbose
                        THEN Append(stdout, Written(NoExtTag(u.which), somefile))
                        ELSE stdout
  /\ stack' = NextEntry(stack)
  /\ UNCHANGED <<argv, fs, pc, cfg, retval, exc>>

\* Line 164: the file was sniffed, then os.chmod raises.
ChmodNoExtFails ==
  /\ FileBranch
  /\ NoExtension(somefile)
  /\ \E readErr \in ReadErrs(0) :
       LET u == UsePermissions(0, readErr, fs.content, fperms, xperms)
           ino == Resolve(someino, top.nlinks).ino
       IN  /\ 0 \in OpenErrs(someino, top.nlinks)
           /\ u.exc = "none"
           /\ MainCatch(errno.EPERM)
           /\ trace' = trace \o SniffEvents(readErr) \o
                << Event("chmod", somefile, somelinks, ino, u.which, OctInt(u.perms),
                         errno.EPERM) >>
  /\ UNCHANGED <<argv, fs, cfg, mode, stdout>>

\* Lines 169-179: a file with an extension has its mode set by the extension.
ChmodExt ==
  /\ FileBranch
  /\ ~NoExtension(somefile)
  /\ 0 \in ChmodErrs(someino, top.nlinks)
  /\ LET c == ClassifyExt(somefile, fperms, xperms)
         ino == Resolve(someino, top.nlinks).ino
     IN  /\ mode' = [mode EXCEPT ![ino] = OctInt(c.perms)]
         /\ trace' = Append(trace,
                Event("chmod", somefile, somelinks, ino, c.which, OctInt(c.perms), 0))
         /\ stdout' = IF cfg.verbose
                      THEN Append(stdout, Written(c.tag, somefile))
                      ELSE stdout
  /\ stack' = NextEntry(stack)
  /\ UNCHANGED <<argv, fs, pc, cfg, retval, exc>>

\* Lines 172, 177: os.chmod on a file with an extension raises.
ChmodExtFails ==
  /\ FileBranch
  /\ ~NoExtension(somefile)
  /\ \E err \in ChmodErrs(someino, top.nlinks) \ {0} :
       LET c == ClassifyExt(somefile, fperms, xperms)
       IN  RaiseOSError(Event("chmod", somefile, somelinks,
                              Resolve(someino, top.nlinks).ino, c.which,
                              OctInt(c.perms), err))
  /\ UNCHANGED <<argv, fs, cfg, mode, stdout>>

-----------------------------------------------------------------------------
(* The runs of the model. *)

String(a, b, c, d) == <<a, b, c, d>>

\* The values given for --dirperms, --fileperms and --execperms.
DirPermArgs == { NoOpt, Opt(String("0", "7", "5", "0")), Opt(<<"7", "5">>) }
FilePermArgs == { Opt(String("0", "6", "4", "0")),
                  Opt(String("0", "6", "4", "8")) }
ExecPermArgs == { Opt(<<" ", "0", "7", "1", "1">>),
                  Opt(<<"0", "7", "5", "5", "5">>) }

Options(dir, dp, fp, xp, symlinks, verbose, help, unknown) ==
  [dir |-> dir, dirperms |-> dp, fileperms |-> fp, execperms |-> xp,
   symlinks |-> symlinks, verbose |-> verbose, help |-> help,
   unknown |-> unknown]

ArgvSet ==
  { Options(Opt(dir), dp, fp, xp, symlinks, verbose, FALSE, FALSE) :
      dir \in RootPaths, dp \in DirPermArgs, fp \in FilePermArgs,
      xp \in ExecPermArgs, symlinks \in BOOLEAN, verbose \in BOOLEAN }
  \cup
  { Options(dir, NoOpt, NoOpt, NoOpt, FALSE, FALSE, help, unknown) :
      dir \in {NoOpt, Opt(<<"t">>)}, help \in BOOLEAN, unknown \in BOOLEAN }

FsSet ==
  { [target |-> [l \in Links |->
                   IF l = "L1" THEN t1 ELSE IF l = "L2" THEN t2 ELSE "F2"],
     content |-> content, order |-> order] :
      t1 \in {"O", "S"}, t2 \in {"T", "F2", Dangling}, content \in Contents,
      order \in {"asc", "desc"} }

Init ==
  /\ argv \in ArgvSet
  /\ fs \in FsSet
  /\ pc = "start"
  /\ cfg = OptionsHelp
  /\ stack = <<>>
  /\ mode = InitMode
  /\ stdout = <<>>
  /\ retval = 0
  /\ exc = "none"
  /\ trace = <<>>

Next ==
  \/ MainOptionsError
  \/ MainHelp
  \/ MainWalk
  \/ ListDirFails
  \/ ChmodDirFails
  \/ EnterDir
  \/ SkipSymlink
  \/ Recurse
  \/ SniffRaises
  \/ ChmodNoExt
  \/ ChmodNoExtFails
  \/ ChmodExt
  \/ ChmodExtFails
  \/ Return

Spec == Init /\ [][Next]_vars

-----------------------------------------------------------------------------
(* Vocabulary of the properties.  These are written from the wording of    *)
(* the specification, not from the code: the base name of a path, the      *)
(* allow-list as a set, the mode a permission string denotes.              *)

\* The run walked (the options were accepted and named a directory).
Walked == pc # "start" /\ cfg.retval = 0 /\ cfg.startdir # NoOpt

\* The run completed successfully.
Success == Walked /\ pc = "done" /\ retval = 0 /\ exc = "none"

\* The last component of a path.
BaseName(path) ==
  LET slashes == {i \in 1..Len(path) : path[i] = "/"}
      last == IF slashes = {} THEN 0
              ELSE CHOOSE i \in slashes : \A j \in slashes : j <= i
  IN  SubSeq(path, last + 1, Len(path))

HasDot(name) == \E i \in 1..Len(name) : name[i] = "."

\* The extension of a name that has a dot: from its last dot on.
Extension(name) ==
  LET last == CHOOSE i \in 1..Len(name) :
                /\ name[i] = "."
                /\ \A j \in (i + 1)..Len(name) : name[j] # "."
  IN  SubSeq(name, last, Len(name))

AllowList ==
  { <<".", "b", "a", "s", "h">>, <<".", "c", "g", "i">>,
    <<".", "c", "s", "h">>, <<".", "e", "x", "e">>, <<".", "o">>,
    <<".", "o", "u", "t">>, <<".", "p", "a", "r">>, <<".", "p", "l">>,
    <<".", "p", "y">>, <<".", "p", "y", "c">>, <<".", "p", "y", "o">>,
    <<".", "r", "b">>, <<".", "s", "h">>, <<".", "s", "o">> }

\* Exactly four digits, each in 0-7.
FourOctalDigits(str) == str \in [1..4 -> OctDigits]

\* The mode four octal digits denote.
Mode4(str) ==
  512 * DigitVal[str[1]] + 64 * DigitVal[str[2]] + 8 * DigitVal[str[3]]
    + DigitVal[str[4]]

DirMode == Mode4(cfg.dirperms)
FileMode == Mode4(cfg.fileperms)
ScriptMode == Mode4(cfg.scriptperms)

\* The mode changes that were made, as indexes of the history.
Chmods == {k \in DOMAIN trace : trace[k].op = "chmod" /\ trace[k].err = 0}
FileChmods == {k \in Chmods : trace[k].which # "dperms"}
Listed == {k \in DOMAIN trace : trace[k].op = "listdir" /\ trace[k].err = 0}

\* A system call of the traversal failed / a read for the sniff failed.
TraversalFailures ==
  {k \in DOMAIN trace : trace[k].op \in {"listdir", "chmod"} /\ trace[k].err # 0}
SniffFailures ==
  {k \in DOMAIN trace : trace[k].op \in {"open", "readline"} /\ trace[k].err # 0}

\* The mode the changes among the first n entries of the history leave ino with.
ModeAfter(ino, n) ==
  LET ks == {k \in Chmods : k <= n /\ trace[k].ino = ino}
  IN  IF ks = {} THEN InitMode[ino]
      ELSE trace[CHOOSE k \in ks : \A j \in ks : j <= k].mode

\* What can be reached from directory d without going through a link.
RECURSIVE DirectReach(_)
DirectReach(d) ==
  {d} \cup {e[2] : e \in {x \in Entries(d) : Kind(x[2]) = "file"}}
      \cup UNION {DirectReach(e[2]) : e \in {x \in Entries(d) : Kind(x[2]) = "dir"}}

Root == RootIno(Val(cfg.startdir))

-----------------------------------------------------------------------------
(* C1 *)

\* C1 (as claimed): after a successful run, every visited file whose base
\* name has no extension has the script mode if its first line starts with
\* "#!", and the file mode otherwise.
C1_ShebangDecidesMode ==
  Success =>
    \A k \in FileChmods :
      ~HasDot(BaseName(trace[k].path)) =>
        mode[trace[k].ino] =
          IF StartsWith(fs.content, <<"#", "!">>) THEN ScriptMode ELSE FileMode

-----------------------------------------------------------------------------
(* C2 *)

\* The mode the extension of a name calls for.
ExtMode(name) ==
  IF Extension(name) \in AllowList THEN ScriptMode ELSE FileMode

-----------------------------------------------------------------------------
(* C3 *)

\* C3: with follow-symlinks disabled, no system call of the walker goes
\* through a symbolic link (no listing, no sniff, no mode change), no call of
\* _chmod_files is made on a link, and everything that can be reached from
\* the root only through a link has the mode it had before the run.
C3_UnfollowedLinksUntouched ==
  (Walked /\ ~cfg.followsymlinks) =>
    /\ \A k \in DOMAIN trace :
         trace[k].nlinks = 0 /\ trace[k].ino \in DirectReach(Root)
    /\ \A n \in DOMAIN stack : stack[n].nlinks = 0
    /\ \A ino \in (Dirs \cup Files) \ DirectReach(Root) :
         mode[ino] = InitMode[ino]

\* A successful run from t with links not followed, where t/lk leads to the
\* directory O outside the tree and t/s.d/up to the file a.py: the tree was
\* changed, O and its file were not.
C3_Witness ==
  /\ Success
  /\ ~cfg.followsymlinks
  /\ Root = "T"
  /\ fs.target["L1"] = "O"
  /\ mode["T"] = DirMode
  /\ mode["F1"] # InitMode["F1"]
  /\ mode["O"] = InitMode["O"]
  /\ mode["F4"] = InitMode["F4"]

-----------------------------------------------------------------------------
(* C4 *)

\* C4: from the moment the walker has listed a directory and set its mode,
\* and so in particular when the run has completed successfully, the mode of
\* that directory is the directory permission: no later step changes it.
C4_VisitedDirsKeepDirMode ==
  Walked =>
    \A k \in Listed :
      /\ trace[k].ino \in Dirs
      /\ mode[trace[k].ino] = DirMode

\* A successful run that visited the root, a directory below it and files
\* after them.
C4_Witness ==
  /\ Success
  /\ Cardinality({trace[k].ino : k \in Listed}) >= 2
  /\ \E k \in Listed : \E j \in FileChmods : j > k /\ trace[k].ino # Root
  /\ DirMode # FileMode

-----------------------------------------------------------------------------
(* C6 *)

\* C6: when listing a directory or changing a mode fails, that is the last
\* thing the run does: main has returned the error number, which is not 0,
\* no call of _chmod_files is left, and every inode has the mode the changes
\* made before the failure gave it.
C6_FailureStopsRun ==
  \A k \in TraversalFailures :
    /\ k = Len(trace)
    /\ pc = "done"
    /\ stack = <<>>
    /\ retval = trace[k].err
    /\ retval # 0
    /\ \A ino \in Dirs \cup Files : mode[ino] = ModeAfter(ino, k - 1)

\* A mode change failed after a directory and a file had been changed.
C6_Witness ==
  /\ pc = "done"
  /\ \E k \in TraversalFailures :
       /\ trace[k].op = "chmod"
       /\ \E j \in FileChmods : j < k /\ mode[trace[j].ino] = trace[j].mode
       /\ mode[Root] = DirMode
       /\ \E ino \in DirectReach(Root) : mode[ino] = InitMode[ino]

-----------------------------------------------------------------------------
(* C5 *)

\* C5 (as claimed): a run in which opening or reading a file for the sniff
\* failed, and no listing and no mode change failed, ends with exit code 0,
\* the file having been given the file permission.
C5_SniffFailureDoesNotAbort ==
  (pc = "done" /\ SniffFailures # {} /\ TraversalFailures = {}) =>
    /\ retval = 0
    /\ exc = "none"
    /\ \A k \in SniffFailures : mode[trace[k].ino] = FileMode

-----------------------------------------------------------------------------
(* C7 *)

\* One of the permission strings given is not four octal digits (surrounding
\* whitespace aside).
Malformed(opt) == opt # NoOpt /\ ~FourOctalDigits(Strip(Val(opt)))

AnyMalformed ==
  Malformed(argv.dirperms) \/ Malformed(argv.fileperms)
    \/ Malformed(argv.execperms)

\* C7 (as claimed): with a malformed permission string the run ends with a
\* non-zero exit code and changes no mode.
C7_MalformedPermsRejected ==
  AnyMalformed =>
    /\ mode = InitMode
    /\ pc = "done" => retval # 0

\* The permission string in force for an option: the one given when it is
\* well formed, the documented default otherwise.
InForce(opt, default) ==
  IF opt = NoOpt \/ Malformed(opt) THEN default ELSE Strip(Val(opt))

\* C7 (amended): a permission string that is not four octal digits does not
\* fail the run: once the options are read (a directory given, no unknown
\* option, no -h), each malformed string has been replaced by its default
\* (0755 for directories, 0644 for files, 0755 for scripts), each well-formed
\* one kept, the run walks, and every mode it sets is the one in force for
\* the class of the entry.
C7_MalformedPermsFallBack ==
  (pc # "start" /\ ~argv.unknown /\ ~argv.help /\ argv.dir # NoOpt) =>
    LET dp == InForce(argv.dirperms, <<"0", "7", "5", "5">>)
        fp == InForce(argv.fileperms, <<"0", "6", "4", "4">>)
        xp == InForce(argv.execperms, <<"0", "7", "5", "5">>)
    IN  /\ Walked
        /\ cfg.dirperms = dp /\ cfg.fileperms = fp /\ cfg.scriptperms = xp
        /\ \A k \in Chmods :
             trace[k].mode = CASE trace[k].which = "dperms" -> Mode4(dp)
                               [] trace[k].which = "fperms" -> Mode4(fp)
                               [] trace[k].which = "xperms" -> Mode4(xp)

\* A successful run with --dirperms 75 and --fileperms 0648: the root has
\* mode 0755 and a file 0644.
C7_Witness ==
  /\ Success
  /\ Malformed(argv.dirperms) /\ Malformed(argv.fileperms)
  /\ mode[Root] = 493
  /\ \E k \in FileChmods : trace[k].which = "fperms" /\ mode[trace[k].ino] = 420

-----------------------------------------------------------------------------
(* C8 *)

IsChmod(ev) == ev.op = "chmod" /\ ev.err = 0
IsEntryLine(line) == line.tag \notin {"chmod", "usage"}

\* The tag that names a permission class.
TagOf(which) ==
  CASE which = "dperms" -> "dir"
    [] which = "fperms" -> "file"
    [] which = "xperms" -> "script/executable"

\* C8 (as claimed): with verbose set, the lines written for the entries are,
\* in order, one per mode change, each with the path changed and the tag of
\* the permission class applied; without verbose there is none.
C8_LogMatchesClass ==
  Walked =>
    LET lines == SelectSeq(stdout, IsEntryLine)
        changes == SelectSeq(trace, IsChmod)
    IN  IF cfg.verbose
        THEN /\ Len(lines) = Len(changes)
             /\ \A n \in 1..Len(lines) :
                  /\ lines[n].path = changes[n].path
                  /\ lines[n].tag = TagOf(changes[n].which)
        ELSE lines = <<>>

-----------------------------------------------------------------------------
(* C9 *)

\* C9 (as claimed): two files of one run with the same base name (all
\* files of the model hold the same content), both read without an error,
\* are given the same permission class, whatever directory they are in.
C9_ClassDependsOnBaseNameOnly ==
  (\A k \in DOMAIN trace : trace[k].op # "readline") =>
    \A j, k \in FileChmods :
      BaseName(trace[j].path) = BaseName(trace[k].path)
        => trace[j].which = trace[k].which

-----------------------------------------------------------------------------
(* C10 *)

\* C10 (as claimed): in one run every directory is listed at most once and
\* every directory and every file has its mode changed at most once.
C10_AtMostOnce ==
  \A ino \in Dirs \cup Files :
    /\ Cardinality({k \in Listed : trace[k].ino = ino}) <= 1
    /\ Cardinality({k \in Chmods : trace[k].ino = ino}) <= 1

=============================================================================
